---- MODULE Spec2Model ----
(***************************************************************************)
(* Model of the gateway shard connection state machine of serenity        *)
(* (src/gateway/shard.rs): the Shard struct, handle_event, the heartbeat   *)
(* clock and the reconnect operations.                                     *)
(*                                                                         *)
(* The shard is single-writer: one driver calls its methods one at a time, *)
(* so every method is one atomic action.  Time is a millisecond counter    *)
(* `now`; an Instant is the value of `now` when it was taken.              *)
(*                                                                         *)
(* Spec is the state machine without the passage of time: every event of   *)
(* handle_event and every method, in any order, at one instant.            *)
(* SpecClock adds the clock, in steps of half a second, to the events and  *)
(* methods that read or write the heartbeat fields.  SpecStartup runs a    *)
(* coarse clock past the start-up grace period with the events and methods *)
(* that write started and heartbeat_interval.                              *)
(* SpecMessenger is one ShardMessenger                                     *)
(* (src/client/bridge/gateway/shard_messenger.rs) with its channel and the *)
(* runner at the other end; SpecChannel is two cloned messengers sending   *)
(* concurrently to a runner that keeps receiving.  SpecLock steps the      *)
(* methods that read the shared token and ws_url through their mutexes,    *)
(* for two shards on their own threads.                                    *)
(* SpecFine runs a clock of quarter seconds inside one heartbeat interval. *)
(* SpecAttachment is the conversions into http::AttachmentType             *)
(* (src/http/mod.rs).  SpecPresence is the presence setters among the      *)
(* other methods and one event of each kind.  SpecMutex is SpecLock for    *)
(* shards built with two mutexes and for shards built with one mutex       *)
(* passed as both ws_url and token.                                        *)
(***************************************************************************)
EXTENDS Integers, Sequences, FiniteSets, TLC

VARIABLES
    shard,  \* the Shard struct
    now,    \* the clock, in milliseconds
    ret,    \* the last method call: method, argument, result, frames, transport
    pre,    \* the Shard struct as it was when the last method was called
    chan,   \* the mpsc channel behind the messengers: queue and receiver
    nsent,   \* per messenger, the number of messages it has enqueued
    ngot,    \* per messenger, the number of its messages the runner received
    recv,   \* the message the runner received last
    lk      \* the token and ws_url mutexes, each connection's position in
            \* a stepped method, and the second connection's Shard

vars == <<shard, now, ret, pre, chan, nsent, ngot, recv, lk>>

\* the variables of the messenger side
msgr == <<chan, nsent, ngot, recv>>

----------------------------------------------------------------------------
(* Bounds of the model *)

\* largest sequence number a Dispatch carries
MaxSeq == 2
\* the number of messages one messenger enqueues
MaxSends == 2
\* the last instant of the fine clock, in milliseconds
MaxFineNow == 750
\* the number of characters of a path string
MaxPathLen == 4
\* the clock of the heartbeat timing stops advancing at this instant
\* (milliseconds)
MaxNow == 2000
\* the clock of the start-up grace period stops advancing at this instant
\* (milliseconds): one second past the grace period of 15 seconds
MaxStartupNow == 16000

----------------------------------------------------------------------------
(* Option<T>: None is the empty tuple, Some(x) the one-element tuple *)

None == <<>>
Some(x) == <<x>>
is_some(o) == o # <<>>
is_none(o) == o = <<>>
unwrap(o) == o[1]

----------------------------------------------------------------------------
(* constants::close_codes, and the two literal codes of handle_event *)

UNKNOWN_ERROR == 4000
UNKNOWN_OPCODE == 4001
DECODE_ERROR == 4002
NOT_AUTHENTICATED == 4003
AUTHENTICATION_FAILED == 4004
ALREADY_AUTHENTICATED == 4005
INVALID_SEQUENCE == 4007
RATE_LIMITED == 4008
SESSION_TIMEOUT == 4009
INVALID_SHARD == 4010
SHARDING_REQUIRED == 4011
CLEAN_CLOSE == 1000
CODE_4006 == 4006

\* the close codes a Closed event is drawn from: every classified code, the
\* clean close, and two codes handle_event does not classify
CloseCodes ==
    { UNKNOWN_ERROR, UNKNOWN_OPCODE, DECODE_ERROR, NOT_AUTHENTICATED,
      AUTHENTICATION_FAILED, ALREADY_AUTHENTICATED, INVALID_SEQUENCE,
      RATE_LIMITED, SESSION_TIMEOUT, INVALID_SHARD, SHARDING_REQUIRED,
      CLEAN_CLOSE, CODE_4006, 1006 }

----------------------------------------------------------------------------
(* Input domains *)

SessionIds == {"abc", "xyz"}
Intervals == {0, 500, 1000}
Seqs == 0 .. MaxSeq
\* a server heartbeat may run ahead of the stored sequence by more than one
ServerSeqs == 0 .. (MaxSeq + 2)
Games == {"playing"}
Statuses == {"Online", "Idle", "DoNotDisturb", "Invisible", "Offline"}
\* the steps the clock advances by (milliseconds): fine steps for the
\* heartbeat timing, coarse ones for the start-up grace period
TickSteps == {500}
FineTickSteps == {250}
StartupTickSteps == {1000, 5000}
\* the connections that share one token and one ws_url: the shard of this
\* model and a second one
Conns == {1, 2}
\* the messengers: clones of one ShardMessenger, one per caller
Callers == {1, 2}
\* the argument of ShardMessenger::websocket_message
RawFrames == {"frame"}
\* the arguments of ShardMessenger::chunk_guilds: ids, limit, query
ChunkRequests == { <<<<81, 82>>, Some(20), Some("do")>> }
\* the characters of a path string, and the strings of n characters
PathChars == {".", "/", "a"}
StrsOfLen(n) == [1 .. n -> PathChars]
\* &str arguments
Strs == UNION { StrsOfLen(n) : n \in 0 .. MaxPathLen }
\* the contents and the name of a (&[u8], &str) argument, the file of a
\* (&File, &str) argument
ByteSlices == { <<>>, <<137, 80>> }
Filenames == { <<"a">>, <<"a", ".", "a">> }
Files == { "file" }
\* [index, total] pairs a shard is constructed with
ShardInfos == {<<1, 2>>}
Stages == {"Connected", "Connecting", "Disconnected", "Handshake",
           "Identifying", "Resuming"}

----------------------------------------------------------------------------
(* GatewayEvent / Error values handed to handle_event.  Every event is a   *)
(* record of the same shape; fields an event does not carry hold None.     *)

Ev(type, seq, event, sid, data) ==
    [type |-> type, seq |-> seq, event |-> event, session_id |-> sid,
     data |-> data]

Dispatch(seq, event, sid) == Ev("Dispatch", Some(seq), event, sid, None)
Heartbeat(s) == Ev("Heartbeat", Some(s), "", None, None)
HeartbeatAck == Ev("HeartbeatAck", None, "", None, None)
Hello(interval) == Ev("Hello", None, "", None, Some(interval))
InvalidateSession(resumable) ==
    Ev("InvalidateSession", None, "", None, Some(resumable))
ReconnectEv == Ev("Reconnect", None, "", None, None)
\* Err(Error::Gateway(GatewayError::Closed(data))): data is None or the code
Closed(data) == Ev("Closed", None, "", None, data)
\* Err(Error::WebSocket(why))
WebSocketErr(why) == Ev("WebSocket", None, why, None, None)
\* any other Err(..): not a gateway close, not a websocket error
OtherErr == Ev("OtherError", None, "", None, None)

DispatchEvents ==
    { Dispatch(n, "Ready", Some(sid)) : n \in Seqs, sid \in SessionIds }
    \cup { Dispatch(n, e, None) : n \in Seqs, e \in {"Resumed", "Other"} }
HeartbeatEvents == { Heartbeat(n) : n \in ServerSeqs }
HelloEvents == { Hello(i) : i \in Intervals }
InvalidateEvents == { InvalidateSession(b) : b \in BOOLEAN }
ClosedEvents == { Closed(None) } \cup { Closed(Some(c)) : c \in CloseCodes }
WebSocketEvents == { WebSocketErr(w) : w \in {"NoDataAvailable", "IoError"} }

----------------------------------------------------------------------------
(* Results: Result<Option<ShardAction>> and Result<()> *)

Ok(v) == [kind |-> "Ok", val |-> v]
Err(e) == [kind |-> "Err", val |-> e]

\* ShardAction, with Reconnect(ReconnectType) spelled out
NoAction == "None"
Identify == "Identify"
HeartbeatAction == "Heartbeat"
ReconnectResume == "Reconnect(Resume)"
ReconnectReidentify == "Reconnect(Reidentify)"

Reconnect(type) ==
    IF type = "Resume" THEN ReconnectResume ELSE ReconnectReidentify

\* the outcome of one method: the shard after it, what it returned, the
\* frames it sent and whether it opened a transport
Out(s, result, frames, conn) ==
    [shard |-> s, result |-> result, frames |-> frames, connect |-> conn]

----------------------------------------------------------------------------
(* Shard::new *)

new(info, t) ==
    [ current_presence |-> <<None, "Online">>,
      heartbeat_instants |-> <<None, None>>,
      heartbeat_interval |-> None,
      last_heartbeat_acknowledged |-> TRUE,
      seq |-> 0,
      session_id |-> None,
      shard_info |-> info,
      stage |-> "Handshake",
      started |-> t ]

----------------------------------------------------------------------------
(* Shard::reconnection_type *)

\* mutant: the answer also looks at the stage, as should_reconnect does
reconnection_type_staged(s) ==
    IF is_some(s.session_id) /\ s.stage # "Connecting"
    THEN "Resume" ELSE "Reidentify"

reconnection_type(s) ==
    IF is_some(s.session_id) THEN "Resume" ELSE "Reidentify"

\* mutant: the stage is not looked at
should_reconnect_always(s) == Some(reconnection_type(s))

(* Shard::should_reconnect: None while Connecting *)

should_reconnect(s) ==
    IF s.stage = "Connecting" THEN None ELSE Some(reconnection_type(s))

----------------------------------------------------------------------------
(* Shard::handle_event, one operator per match arm.  t is Instant::now(). *)

\* mutant: a gap in the sequence is not stored
handle_dispatch_gap(s, ev, t) ==
    LET s1 == CASE ev.event = "Ready" ->
                     [s EXCEPT !.session_id = ev.session_id,
                               !.stage = "Connected"]
                 [] ev.event = "Resumed" ->
                     [s EXCEPT !.stage = "Connected",
                               !.last_heartbeat_acknowledged = TRUE,
                               !.heartbeat_instants = <<Some(t), None>>]
                 [] OTHER -> s
    IN Out(IF unwrap(ev.seq) > s.seq + 1
           THEN s1 ELSE [s1 EXCEPT !.seq = unwrap(ev.seq)],
           Ok(NoAction), <<>>, "none")

\* mutant: Ready keeps a session id the shard already holds
handle_dispatch_keep_session(s, ev, t) ==
    LET s1 == CASE ev.event = "Ready" ->
                     [s EXCEPT !.session_id = IF is_some(s.session_id)
                                              THEN s.session_id
                                              ELSE ev.session_id,
                               !.stage = "Connected"]
                 [] ev.event = "Resumed" ->
                     [s EXCEPT !.stage = "Connected",
                               !.last_heartbeat_acknowledged = TRUE,
                               !.heartbeat_instants = <<Some(t), None>>]
                 [] OTHER -> s
    IN Out([s1 EXCEPT !.seq = unwrap(ev.seq)], Ok(NoAction), <<>>, "none")

\* Ok(GatewayEvent::Dispatch(seq, ref event))
handle_dispatch(s, ev, t) ==
    LET s1 == CASE ev.event = "Ready" ->
                     [s EXCEPT !.session_id = ev.session_id,
                               !.stage = "Connected"]
                 [] ev.event = "Resumed" ->
                     [s EXCEPT !.stage = "Connected",
                               !.last_heartbeat_acknowledged = TRUE,
                               !.heartbeat_instants = <<Some(t), None>>]
                 [] OTHER -> s
    IN Out([s1 EXCEPT !.seq = unwrap(ev.seq)], Ok(NoAction), <<>>, "none")

\* mutant: a server sequence one ahead already counts as off
handle_heartbeat_no_tolerance(s, ev, t) ==
    IF unwrap(ev.seq) > s.seq
    THEN IF s.stage = "Handshake"
         THEN Out([s EXCEPT !.stage = "Identifying"], Ok(Identify), <<>>,
                  "none")
         ELSE Out(s, Ok(Reconnect(reconnection_type(s))), <<>>, "none")
    ELSE Out(s, Ok(HeartbeatAction), <<>>, "none")

\* Ok(GatewayEvent::Heartbeat(s))
handle_heartbeat(s, ev, t) ==
    IF unwrap(ev.seq) > s.seq + 1
    THEN IF s.stage = "Handshake"
         THEN Out([s EXCEPT !.stage = "Identifying"], Ok(Identify), <<>>,
                  "none")
         ELSE Out(s, Ok(Reconnect(reconnection_type(s))), <<>>, "none")
    ELSE Out(s, Ok(HeartbeatAction), <<>>, "none")

\* mutant: the acknowledgement is noted but not its instant
handle_heartbeat_ack_no_instant(s, ev, t) ==
    Out([s EXCEPT !.last_heartbeat_acknowledged = TRUE],
        Ok(NoAction), <<>>, "none")

\* Ok(GatewayEvent::HeartbeatAck)
handle_heartbeat_ack(s, ev, t) ==
    Out([s EXCEPT !.heartbeat_instants[2] = Some(t),
                  !.last_heartbeat_acknowledged = TRUE],
        Ok(NoAction), <<>>, "none")

\* mutant: a Hello is acted on in every stage
handle_hello_while_resuming(s, ev, t) ==
    LET interval == unwrap(ev.data)
        s1 == IF interval > 0
              THEN [s EXCEPT !.heartbeat_interval = Some(interval)]
              ELSE s
    IN Out(s1,
           Ok(IF s1.stage = "Handshake"
              THEN Identify
              ELSE Reconnect(reconnection_type(s1))),
           <<>>, "none")

\* mutant: the interval is stored whatever its value
handle_hello_any_interval(s, ev, t) ==
    IF s.stage = "Resuming"
    THEN Out(s, Ok(NoAction), <<>>, "none")
    ELSE LET s1 == [s EXCEPT !.heartbeat_interval = ev.data]
         IN Out(s1,
                Ok(IF s1.stage = "Handshake"
                   THEN Identify
                   ELSE Reconnect(reconnection_type(s1))),
                <<>>, "none")

\* mutant: a Hello answered with Identify moves the stage to Identifying
handle_hello_identifying(s, ev, t) ==
    IF s.stage = "Resuming"
    THEN Out(s, Ok(NoAction), <<>>, "none")
    ELSE LET interval == unwrap(ev.data)
             s1 == IF interval > 0
                   THEN [s EXCEPT !.heartbeat_interval = Some(interval)]
                   ELSE s
         IN IF s1.stage = "Handshake"
            THEN Out([s1 EXCEPT !.stage = "Identifying"], Ok(Identify),
                     <<>>, "none")
            ELSE Out(s1, Ok(Reconnect(reconnection_type(s1))), <<>>, "none")

\* Ok(GatewayEvent::Hello(interval))
handle_hello(s, ev, t) ==
    IF s.stage = "Resuming"
    THEN Out(s, Ok(NoAction), <<>>, "none")
    ELSE LET interval == unwrap(ev.data)
             s1 == IF interval > 0
                   THEN [s EXCEPT !.heartbeat_interval = Some(interval)]
                   ELSE s
         IN Out(s1,
                Ok(IF s1.stage = "Handshake"
                   THEN Identify
                   ELSE Reconnect(reconnection_type(s1))),
                <<>>, "none")

\* mutant: a resumable invalidation resumes only with a session id
handle_invalidate_session_by_session(s, ev, t) ==
    Out(s, Ok(IF unwrap(ev.data) THEN Reconnect(reconnection_type(s))
                                 ELSE ReconnectReidentify), <<>>, "none")

\* Ok(GatewayEvent::InvalidateSession(resumable))
handle_invalidate_session(s, ev, t) ==
    Out(s, Ok(IF unwrap(ev.data) THEN ReconnectResume
                                 ELSE ReconnectReidentify), <<>>, "none")

\* Ok(GatewayEvent::Reconnect)
handle_reconnect(s, ev, t) ==
    Out(s, Ok(ReconnectReidentify), <<>>, "none")

\* the `let resume = ...` decision that ends the Closed arm
closed_resume(s, num) ==
    IF is_some(num)
    THEN unwrap(num) # AUTHENTICATION_FAILED /\ is_some(s.session_id)
    ELSE TRUE

\* mutant: the closes that end with an error only log, the invalid-sequence
\* close keeps the sequence
handle_closed_lenient(s, ev, t) ==
    LET num == ev.data
        decide(s1) == Out(s1, Ok(IF closed_resume(s1, num)
                                 THEN ReconnectResume
                                 ELSE ReconnectReidentify), <<>>, "none")
    IN CASE num = Some(CODE_4006) \/ num = Some(SESSION_TIMEOUT) ->
              decide([s EXCEPT !.session_id = None])
         [] OTHER -> decide(s)

\* mutant: the session-timeout and 4006 closes keep the session id
handle_closed_keep_session(s, ev, t) ==
    LET num == ev.data
        decide(s1) == Out(s1, Ok(IF closed_resume(s1, num)
                                 THEN ReconnectResume
                                 ELSE ReconnectReidentify), <<>>, "none")
    IN CASE num = Some(NOT_AUTHENTICATED) ->
              Out(s, Err("NoAuthentication"), <<>>, "none")
         [] num = Some(AUTHENTICATION_FAILED) ->
              Out(s, Err("InvalidAuthentication"), <<>>, "none")
         [] num = Some(INVALID_SEQUENCE) -> decide([s EXCEPT !.seq = 0])
         [] num = Some(INVALID_SHARD) ->
              Out(s, Err("InvalidShardData"), <<>>, "none")
         [] num = Some(SHARDING_REQUIRED) ->
              Out(s, Err("OverloadedShard"), <<>>, "none")
         [] OTHER -> decide(s)

\* Err(Error::Gateway(GatewayError::Closed(ref data)))
handle_closed(s, ev, t) ==
    LET num == ev.data
        decide(s1) == Out(s1, Ok(IF closed_resume(s1, num)
                                 THEN ReconnectResume
                                 ELSE ReconnectReidentify), <<>>, "none")
    IN CASE num = Some(UNKNOWN_OPCODE) -> decide(s)
         [] num = Some(DECODE_ERROR) -> decide(s)
         [] num = Some(NOT_AUTHENTICATED) ->
              Out(s, Err("NoAuthentication"), <<>>, "none")
         [] num = Some(AUTHENTICATION_FAILED) ->
              Out(s, Err("InvalidAuthentication"), <<>>, "none")
         [] num = Some(ALREADY_AUTHENTICATED) -> decide(s)
         [] num = Some(INVALID_SEQUENCE) -> decide([s EXCEPT !.seq = 0])
         [] num = Some(RATE_LIMITED) -> decide(s)
         [] num = Some(INVALID_SHARD) ->
              Out(s, Err("InvalidShardData"), <<>>, "none")
         [] num = Some(SHARDING_REQUIRED) ->
              Out(s, Err("OverloadedShard"), <<>>, "none")
         [] num = Some(CODE_4006) \/ num = Some(SESSION_TIMEOUT) ->
              decide([s EXCEPT !.session_id = None])
         [] OTHER -> decide(s)

\* mutant: a read timeout is tolerated whether or not an ack was recorded
handle_websocket_error_tolerant(s, ev, t) ==
    IF ev.event = "NoDataAvailable"
    THEN Out(s, Ok(NoAction), <<>>, "none")
    ELSE Out(s, Ok(Reconnect(reconnection_type(s))), <<>>, "none")

\* mutant: every websocket error asks for a reconnect, a read timeout too
handle_websocket_error_strict(s, ev, t) ==
    Out(s, Ok(Reconnect(reconnection_type(s))), <<>>, "none")

\* Err(Error::WebSocket(ref why))
handle_websocket_error(s, ev, t) ==
    IF ev.event = "NoDataAvailable" /\ is_none(s.heartbeat_instants[2])
    THEN Out(s, Ok(NoAction), <<>>, "none")
    ELSE Out(s, Ok(Reconnect(reconnection_type(s))), <<>>, "none")

\* mutant: an unexpected error asks for a reconnect
handle_other_reconnect(s, ev, t) ==
    Out(s, Ok(Reconnect(reconnection_type(s))), <<>>, "none")

\* _ => Ok(None)
handle_other(s, ev, t) == Out(s, Ok(NoAction), <<>>, "none")

handle_event(s, ev, t) ==
    CASE ev.type = "Dispatch" -> handle_dispatch(s, ev, t)
      [] ev.type = "Heartbeat" -> handle_heartbeat(s, ev, t)
      [] ev.type = "HeartbeatAck" -> handle_heartbeat_ack(s, ev, t)
      [] ev.type = "Hello" -> handle_hello(s, ev, t)
      [] ev.type = "InvalidateSession" -> handle_invalidate_session(s, ev, t)
      [] ev.type = "Reconnect" -> handle_reconnect(s, ev, t)
      [] ev.type = "Closed" -> handle_closed(s, ev, t)
      [] ev.type = "WebSocket" -> handle_websocket_error(s, ev, t)
      [] OTHER -> handle_other(s, ev, t)

----------------------------------------------------------------------------
(* Frames handed to the transport (the send_.. methods of WsClient) *)

HeartbeatFrame(seq) == [op |-> "Heartbeat", seq |-> seq, session_id |-> None]
IdentifyFrame == [op |-> "Identify", seq |-> 0, session_id |-> None]
ResumeFrame(sid, seq) == [op |-> "Resume", seq |-> seq, session_id |-> sid]
\* send_presence_update(&self.shard_info, &self.current_presence)
PresenceFrame(info, presence) ==
    [op |-> "StatusUpdate", shard_info |-> info, presence |-> presence]

----------------------------------------------------------------------------
\* mutant: the instant of a heartbeat is recorded although its send failed
heartbeat_record_on_failure(s, send_ok, t) ==
    IF send_ok
    THEN Out([s EXCEPT !.heartbeat_instants[1] = Some(t),
                       !.last_heartbeat_acknowledged = FALSE],
             Ok("()"), <<HeartbeatFrame(s.seq)>>, "none")
    ELSE Out([s EXCEPT !.heartbeat_instants[1] = Some(t)],
             Err("HeartbeatFailed"), <<HeartbeatFrame(s.seq)>>, "none")

(* Shard::heartbeat: send_ok is whether client.send_heartbeat succeeded *)

heartbeat(s, send_ok, t) ==
    IF send_ok
    THEN Out([s EXCEPT !.heartbeat_instants[1] = Some(t),
                       !.last_heartbeat_acknowledged = FALSE],
             Ok("()"), <<HeartbeatFrame(s.seq)>>, "none")
    ELSE Out(s, Err("HeartbeatFailed"), <<HeartbeatFrame(s.seq)>>, "none")

\* StdDuration::from_secs(15), in milliseconds
StartupGrace == 15000

\* StdDuration::from_secs(heartbeat_interval / 1000), in milliseconds
heartbeat_wait(interval) == (interval \div 1000) * 1000

\* mutant: a heartbeat is sent although the last one was not acknowledged
check_heartbeat_resend(s, send_ok, t) ==
    IF is_none(s.heartbeat_interval)
    THEN Out(s, t - s.started < StartupGrace, <<>>, "none")
    ELSE LET wait == heartbeat_wait(unwrap(s.heartbeat_interval))
             last_sent == s.heartbeat_instants[1]
         IN IF is_some(last_sent) /\ t - unwrap(last_sent) <= wait
            THEN Out(s, TRUE, <<>>, "none")
            ELSE LET o == heartbeat(s, send_ok, t)
                 IN Out(o.shard, o.result.kind = "Ok", o.frames, "none")

\* mutant: the grace period includes its last instant
check_heartbeat_grace_inclusive(s, send_ok, t) ==
    IF is_none(s.heartbeat_interval)
    THEN Out(s, t - s.started <= StartupGrace, <<>>, "none")
    ELSE LET wait == heartbeat_wait(unwrap(s.heartbeat_interval))
             last_sent == s.heartbeat_instants[1]
         IN IF is_some(last_sent) /\ t - unwrap(last_sent) <= wait
            THEN Out(s, TRUE, <<>>, "none")
            ELSE IF ~s.last_heartbeat_acknowledged
            THEN Out(s, FALSE, <<>>, "none")
            ELSE LET o == heartbeat(s, send_ok, t)
                 IN Out(o.shard, o.result.kind = "Ok", o.frames, "none")

(* Shard::check_heartbeat: the result is the returned bool *)

check_heartbeat(s, send_ok, t) ==
    IF is_none(s.heartbeat_interval)
    THEN Out(s, t - s.started < StartupGrace, <<>>, "none")
    ELSE LET wait == heartbeat_wait(unwrap(s.heartbeat_interval))
             last_sent == s.heartbeat_instants[1]
         IN IF is_some(last_sent) /\ t - unwrap(last_sent) <= wait
            THEN Out(s, TRUE, <<>>, "none")
            ELSE IF ~s.last_heartbeat_acknowledged
            THEN Out(s, FALSE, <<>>, "none")
            ELSE LET o == heartbeat(s, send_ok, t)
                 IN Out(o.shard, o.result.kind = "Ok", o.frames, "none")

\* mutant: an acknowledgement at the instant of the send counts
latency_inclusive(s) ==
    LET sent == s.heartbeat_instants[1]
        received == s.heartbeat_instants[2]
    IN IF is_some(sent) /\ is_some(received) /\ unwrap(received) >= unwrap(sent)
       THEN Some(unwrap(received) - unwrap(sent))
       ELSE None

(* Shard::latency: Option<Duration> *)

latency(s) ==
    LET sent == s.heartbeat_instants[1]
        received == s.heartbeat_instants[2]
    IN IF is_some(sent) /\ is_some(received) /\ unwrap(received) > unwrap(sent)
       THEN Some(unwrap(received) - unwrap(sent))
       ELSE None

----------------------------------------------------------------------------
\* mutant: identifying starts the sequence over
identify_fresh(s, send_ok, t) ==
    IF send_ok
    THEN Out([s EXCEPT !.heartbeat_instants[1] = Some(t),
                       !.stage = "Identifying",
                       !.seq = 0],
             Ok("()"), <<IdentifyFrame>>, "none")
    ELSE Out(s, Err("Send"), <<IdentifyFrame>>, "none")

(* Shard::identify: send_ok is whether client.send_identify succeeded *)

identify(s, send_ok, t) ==
    IF send_ok
    THEN Out([s EXCEPT !.heartbeat_instants[1] = Some(t),
                       !.stage = "Identifying"],
             Ok("()"), <<IdentifyFrame>>, "none")
    ELSE Out(s, Err("Send"), <<IdentifyFrame>>, "none")

(* Shard::initialize: conn_ok is whether connect(..) succeeded *)

initialize(s, conn_ok, t) ==
    LET s1 == [s EXCEPT !.stage = "Connecting", !.started = t]
    IN IF conn_ok
       THEN Out([s1 EXCEPT !.stage = "Handshake"], Ok("client"), <<>>, "ok")
       ELSE Out(s1, Err("Connect"), <<>>, "failed")

\* mutant: reset also puts the presence back to what new() gives
reset_presence(s, t) ==
    [s EXCEPT !.heartbeat_instants = <<Some(t), None>>,
              !.heartbeat_interval = None,
              !.last_heartbeat_acknowledged = TRUE,
              !.session_id = None,
              !.stage = "Disconnected",
              !.seq = 0,
              !.current_presence = <<None, "Online">>]

\* mutant: reset keeps the session id
reset_keep_session(s, t) ==
    [s EXCEPT !.heartbeat_instants = <<Some(t), None>>,
              !.heartbeat_interval = None,
              !.last_heartbeat_acknowledged = TRUE,
              !.stage = "Disconnected",
              !.seq = 0]

(* Shard::reset *)

reset(s, t) ==
    [s EXCEPT !.heartbeat_instants = <<Some(t), None>>,
              !.heartbeat_interval = None,
              !.last_heartbeat_acknowledged = TRUE,
              !.session_id = None,
              !.stage = "Disconnected",
              !.seq = 0]

\* mutant: resume resets the shard first, as reconnect does
resume_reset(s, conn_ok, send_ok, t) ==
    LET i == initialize(reset(s, t), conn_ok, t)
    IN IF i.result.kind = "Err"
       THEN i
       ELSE LET s1 == [i.shard EXCEPT !.stage = "Resuming"]
            IN IF is_some(s1.session_id)
               THEN Out(s1, IF send_ok THEN Ok("()") ELSE Err("Send"),
                        <<ResumeFrame(unwrap(s1.session_id), s1.seq)>>, "ok")
               ELSE Out(s1, Err("NoSessionId"), <<>>, "ok")

(* Shard::resume *)

resume(s, conn_ok, send_ok, t) ==
    LET i == initialize(s, conn_ok, t)
    IN IF i.result.kind = "Err"
       THEN i
       ELSE LET s1 == [i.shard EXCEPT !.stage = "Resuming"]
            IN IF is_some(s1.session_id)
               THEN Out(s1, IF send_ok THEN Ok("()") ELSE Err("Send"),
                        <<ResumeFrame(unwrap(s1.session_id), s1.seq)>>, "ok")
               ELSE Out(s1, Err("NoSessionId"), <<>>, "ok")

\* mutant: the shard is reset only once the new transport is open
reconnect_late_reset(s, conn_ok, t) ==
    LET i == initialize(s, conn_ok, t)
    IN IF i.result.kind = "Err"
       THEN i
       ELSE Out([reset(i.shard, t) EXCEPT !.stage = "Handshake"],
                Ok("()"), <<>>, "ok")

\* mutant: the shard is reset after the new transport is opened and is left
\* as reset() leaves it
reconnect_reset_last(s, conn_ok, t) ==
    LET i == initialize(s, conn_ok, t)
    IN IF i.result.kind = "Err"
       THEN i
       ELSE Out(reset(i.shard, t), Ok("()"), <<>>, "ok")

(* Shard::reconnect *)

reconnect(s, conn_ok, t) ==
    LET i == initialize(reset(s, t), conn_ok, t)
    IN IF i.result.kind = "Err" THEN i ELSE Out(i.shard, Ok("()"), <<>>, "ok")

(* Shard::update_presence: one send of the stored presence *)

update_presence(s, send_ok) ==
    Out(s, IF send_ok THEN Ok("()") ELSE Err("Send"),
        <<PresenceFrame(s.shard_info, s.current_presence)>>, "none")

(* Shard::shard_info *)

shard_info(s) == s.shard_info

----------------------------------------------------------------------------
(* Shard::set_game / set_status / set_presence *)

set_game(s, game) == [s EXCEPT !.current_presence[1] = game]

set_status(s, status) ==
    [s EXCEPT !.current_presence[2] =
                  IF status = "Offline" THEN "Invisible" ELSE status]

set_presence(s, status, game) == set_status(set_game(s, game), status)

----------------------------------------------------------------------------
(* ShardRunnerMessage, as InterMessage::Client(ShardClientMessage::Runner)  *)
(* wraps it.  Every message is a record of the same shape.                 *)

RunnerMsg(kind, status, game, code, payload) ==
    [kind |-> kind, status |-> status, game |-> game, code |-> code,
     payload |-> payload]

ChunkGuilds(guild_ids, limit, query) ==
    RunnerMsg("ChunkGuilds", "", None, None, <<guild_ids, limit, query>>)
SetGame(game) == RunnerMsg("SetGame", "", game, None, None)
SetPresence(status, game) == RunnerMsg("SetPresence", status, game, None, None)
SetStatus(status) == RunnerMsg("SetStatus", status, None, None, None)
Close(code, reason) == RunnerMsg("Close", "", None, Some(code), reason)
Message(frame) == RunnerMsg("Message", "", None, None, Some(frame))

(* std::sync::mpsc: an unbounded FIFO queue and whether its Receiver still *)
(* exists.  Sender::send appends, or fails once the Receiver is dropped.    *)

channel == [queue |-> <<>>, alive |-> TRUE]

\* mutant: the message goes to the front of the queue
send_first(ch, tag, msg) ==
    IF ch.alive
    THEN [chan |-> [ch EXCEPT !.queue =
                        <<[from |-> tag[1], n |-> tag[2], msg |-> msg]>> \o @],
          ok |-> TRUE]
    ELSE [chan |-> ch, ok |-> FALSE]

(* ShardMessenger::send: tx.send(InterMessage::Client(Runner(msg))).  tag   *)
(* names the sending messenger and counts its messages.                    *)

send(ch, tag, msg) ==
    IF ch.alive
    THEN [chan |-> [ch EXCEPT !.queue =
                        Append(@, [from |-> tag[1], n |-> tag[2], msg |-> msg])],
          ok |-> TRUE]
    ELSE [chan |-> ch, ok |-> FALSE]

\* a method without a result returned, or it panicked
Returned == [kind |-> "Returned", val |-> "()"]
Panicked == [kind |-> "Panicked", val |-> "()"]

\* the outcome of one messenger method: the channel after it, the sends it
\* attempted with their outcome, and how it returned
Sent(ch, sends, result) == [chan |-> ch, sends |-> sends, result |-> result]

\* mutant: a failed send is not swallowed
send_unwrap(ch, tag, msg) ==
    LET r == send(ch, tag, msg)
    IN Sent(r.chan, <<[msg |-> msg, ok |-> r.ok]>>,
            IF r.ok THEN Returned ELSE Panicked)

\* `let _ = self.send(msg);` and return
send_and_forget(ch, tag, msg) ==
    LET r == send(ch, tag, msg)
    IN Sent(r.chan, <<[msg |-> msg, ok |-> r.ok]>>, Returned)

(* The methods of ShardMessenger *)

messenger_chunk_guilds(ch, tag, guild_ids, limit, query) ==
    send_and_forget(ch, tag, ChunkGuilds(guild_ids, limit, query))

messenger_set_game(ch, tag, game) ==
    send_and_forget(ch, tag, SetGame(game))

messenger_set_presence(ch, tag, game, status) ==
    send_and_forget(ch, tag,
        SetPresence(IF status = "Offline" THEN "Invisible" ELSE status, game))

\* mutant: the status is sent as given
messenger_set_status_verbatim(ch, tag, online_status) ==
    send_and_forget(ch, tag, SetStatus(online_status))

messenger_set_status(ch, tag, online_status) ==
    send_and_forget(ch, tag,
        SetStatus(IF online_status = "Offline"
                  THEN "Invisible" ELSE online_status))

messenger_shutdown_clean(ch, tag) ==
    send_and_forget(ch, tag, Close(CLEAN_CLOSE, None))

messenger_websocket_message(ch, tag, message) ==
    send_and_forget(ch, tag, Message(message))

(* The runner applies a received message to its shard: the presence        *)
(* messages through Shard::set_game, set_status and set_presence.          *)

runner_apply(s, msg) ==
    CASE msg.kind = "SetGame" -> set_game(s, msg.game)
      [] msg.kind = "SetStatus" -> set_status(s, msg.status)
      [] msg.kind = "SetPresence" -> set_presence(s, msg.status, msg.game)
      [] OTHER -> s

----------------------------------------------------------------------------
(* The driver: one method call per step.  ret records the last call: the   *)
(* method, its argument, what it returned, the frames it handed to the     *)
(* transport, whether it opened one, the instant of the call, and the      *)
(* sends a messenger attempted on its channel.                             *)

Called(op, arg, o) ==
    [op |-> op, arg |-> arg, result |-> o.result, frames |-> o.frames,
     connect |-> o.connect, at |-> now, sends |-> <<>>]

Call(op, arg, o) ==
    /\ shard' = o.shard
    /\ ret' = Called(op, arg, o)
    /\ pre' = shard
    /\ now' = now
    /\ UNCHANGED <<msgr, lk>>

Construct(same) ==
    /\ now = 0
    /\ \E info \in ShardInfos : shard = new(info, 0)
    /\ ret = Called("new", None, Out(shard, Ok("()"), <<>>, "ok"))
    /\ pre = shard
    /\ chan = channel
    /\ nsent = [c \in Callers |-> 0]
    /\ ngot = [c \in Callers |-> 0]
    /\ recv = None
    /\ lk = [owner |-> [token |-> 0, ws_url |-> 0],
             pc |-> [c \in Conns |-> "idle"],
             peer |-> shard,
             same |-> same]

\* the connections are built with two mutexes
Init == Construct(FALSE)

\* the connections are built with two mutexes, or with one for both
InitMutex == \E same \in BOOLEAN : Construct(same)

HandleDispatch ==
    \E ev \in DispatchEvents : Call("handle_event", ev, handle_event(shard, ev, now))

HandleHeartbeat ==
    \E ev \in HeartbeatEvents : Call("handle_event", ev, handle_event(shard, ev, now))

HandleHeartbeatAck ==
    Call("handle_event", HeartbeatAck, handle_event(shard, HeartbeatAck, now))

HandleHello ==
    \E ev \in HelloEvents : Call("handle_event", ev, handle_event(shard, ev, now))

HandleInvalidateSession ==
    \E ev \in InvalidateEvents : Call("handle_event", ev, handle_event(shard, ev, now))

HandleReconnect ==
    Call("handle_event", ReconnectEv, handle_event(shard, ReconnectEv, now))

HandleClosed ==
    \E ev \in ClosedEvents : Call("handle_event", ev, handle_event(shard, ev, now))

HandleWebSocketError ==
    \E ev \in WebSocketEvents : Call("handle_event", ev, handle_event(shard, ev, now))

HandleOtherError ==
    Call("handle_event", OtherErr, handle_event(shard, OtherErr, now))

CallHeartbeat ==
    \E send_ok \in BOOLEAN :
        Call("heartbeat", None, heartbeat(shard, send_ok, now))

CallCheckHeartbeat ==
    \E send_ok \in BOOLEAN :
        Call("check_heartbeat", None, check_heartbeat(shard, send_ok, now))

CallIdentify ==
    \E send_ok \in BOOLEAN :
        Call("identify", None, identify(shard, send_ok, now))

CallInitialize ==
    \E conn_ok \in BOOLEAN :
        Call("initialize", None, initialize(shard, conn_ok, now))

CallReset ==
    Call("reset", None, Out(reset(shard, now), Ok("()"), <<>>, "none"))

CallResume ==
    \E conn_ok \in BOOLEAN, send_ok \in BOOLEAN :
        Call("resume", None, resume(shard, conn_ok, send_ok, now))

CallReconnect ==
    \E conn_ok \in BOOLEAN :
        Call("reconnect", None, reconnect(shard, conn_ok, now))

CallReconnectionType ==
    Call("reconnection_type", None,
         Out(shard, reconnection_type(shard), <<>>, "none"))

CallShouldReconnect ==
    Call("should_reconnect", None,
         Out(shard, should_reconnect(shard), <<>>, "none"))

CallSetGame ==
    \E game \in {None} \cup {Some(g) : g \in Games} :
        Call("set_game", [status |-> "", game |-> game],
             Out(set_game(shard, game), Returned, <<>>, "none"))

CallSetStatus ==
    \E status \in Statuses :
        Call("set_status", [status |-> status, game |-> None],
             Out(set_status(shard, status), Returned, <<>>, "none"))

CallSetPresence ==
    \E status \in Statuses, game \in {None} \cup {Some(g) : g \in Games} :
        Call("set_presence", [status |-> status, game |-> game],
             Out(set_presence(shard, status, game), Returned, <<>>, "none"))

\* the clock advances between calls
Tick ==
    \E d \in TickSteps :
        /\ now + d <= MaxNow
        /\ now' = now + d
        /\ UNCHANGED <<shard, ret, pre, msgr, lk>>

Next ==
    \/ HandleDispatch
    \/ HandleHeartbeat
    \/ HandleHeartbeatAck
    \/ HandleHello
    \/ HandleInvalidateSession
    \/ HandleReconnect
    \/ HandleClosed
    \/ HandleWebSocketError
    \/ HandleOtherError
    \/ CallHeartbeat
    \/ CallCheckHeartbeat
    \/ CallIdentify
    \/ CallInitialize
    \/ CallReset
    \/ CallResume
    \/ CallReconnect
    \/ CallReconnectionType
    \/ CallShouldReconnect

Spec == Init /\ [][Next]_vars

----------------------------------------------------------------------------
(* The presence setters among the other methods, with one event of each   *)
(* arm of handle_event.                                                    *)

PresenceEvents ==
    { Dispatch(1, "Ready", Some("abc")), Dispatch(1, "Resumed", None),
      Heartbeat(MaxSeq + 2), HeartbeatAck, Hello(1000),
      InvalidateSession(FALSE), ReconnectEv, Closed(Some(SESSION_TIMEOUT)),
      Closed(Some(INVALID_SEQUENCE)), WebSocketErr("IoError"), OtherErr }

HandlePresenceEvent ==
    \E ev \in PresenceEvents :
        Call("handle_event", ev, handle_event(shard, ev, now))

CallUpdatePresence ==
    \E send_ok \in BOOLEAN :
        Call("update_presence", None, update_presence(shard, send_ok))

CallShardInfo ==
    Call("shard_info", None, Out(shard, shard_info(shard), <<>>, "none"))

NextPresence ==
    \/ CallSetGame
    \/ CallSetStatus
    \/ CallSetPresence
    \/ HandlePresenceEvent
    \/ CallCheckHeartbeat
    \/ CallHeartbeat
    \/ CallIdentify
    \/ CallReset
    \/ CallReconnect
    \/ CallResume
    \/ CallUpdatePresence
    \/ CallShardInfo

SpecPresence == Init /\ [][NextPresence]_vars

----------------------------------------------------------------------------
(* The heartbeat clock: the events and methods that read or write          *)
(* heartbeat_interval, heartbeat_instants, last_heartbeat_acknowledged and *)
(* started, with time passing between them.                                *)

ClockDispatchEvents ==
    { Dispatch(1, "Resumed", None), Dispatch(1, "Other", None) }

HandleDispatchClock ==
    \E ev \in ClockDispatchEvents :
        Call("handle_event", ev, handle_event(shard, ev, now))

CallLatency ==
    Call("latency", None, Out(shard, latency(shard), <<>>, "none"))

NextClock ==
    \/ Tick
    \/ HandleDispatchClock
    \/ HandleHeartbeatAck
    \/ HandleHello
    \/ CallHeartbeat
    \/ CallCheckHeartbeat
    \/ CallIdentify
    \/ CallResume
    \/ CallReconnect
    \/ CallReset
    \/ CallLatency

SpecClock == Init /\ [][NextClock]_vars

\* the fine clock: instants inside a heartbeat interval
TickFine ==
    \E d \in FineTickSteps :
        /\ now + d <= MaxFineNow
        /\ now' = now + d
        /\ UNCHANGED <<shard, ret, pre, msgr, lk>>

NextFine ==
    \/ TickFine
    \/ HandleDispatchClock
    \/ HandleHeartbeatAck
    \/ HandleHello
    \/ CallHeartbeat
    \/ CallCheckHeartbeat

SpecFine == Init /\ [][NextFine]_vars

\* the coarse clock of the start-up grace period
TickStartup ==
    \E d \in StartupTickSteps :
        /\ now + d <= MaxStartupNow
        /\ now' = now + d
        /\ UNCHANGED <<shard, ret, pre, msgr, lk>>

NextStartup ==
    \/ TickStartup
    \/ HandleHello
    \/ CallCheckHeartbeat
    \/ CallInitialize
    \/ CallResume
    \/ CallReconnect

SpecStartup == Init /\ [][NextStartup]_vars

----------------------------------------------------------------------------
(* The messengers.  One call of messenger c is one step: the method builds  *)
(* its message and hands it to the channel in a single send.               *)

MessengerCall(c, op, arg, o) ==
    /\ nsent[c] < MaxSends
    /\ chan' = o.chan
    /\ nsent' = [nsent EXCEPT ![c] = IF o.chan # chan THEN @ + 1 ELSE @]
    /\ ret' = [op |-> op, arg |-> arg, result |-> o.result, frames |-> <<>>,
               connect |-> "none", at |-> now, sends |-> o.sends]
    /\ pre' = shard
    /\ UNCHANGED <<shard, now, ngot, recv, lk>>

Tag(c) == <<c, nsent[c] + 1>>

MessengerChunkGuilds(c) ==
    \E req \in ChunkRequests :
        MessengerCall(c, "messenger.chunk_guilds", req,
            messenger_chunk_guilds(chan, Tag(c), req[1], req[2], req[3]))

MessengerSetGame(c) ==
    \E game \in {None} \cup {Some(g) : g \in Games} :
        MessengerCall(c, "messenger.set_game", [status |-> "", game |-> game],
            messenger_set_game(chan, Tag(c), game))

MessengerSetPresence(c) ==
    \E status \in Statuses, game \in {Some(g) : g \in Games} :
        MessengerCall(c, "messenger.set_presence",
            [status |-> status, game |-> game],
            messenger_set_presence(chan, Tag(c), game, status))

MessengerSetStatus(c, statuses) ==
    \E status \in statuses :
        MessengerCall(c, "messenger.set_status",
            [status |-> status, game |-> None],
            messenger_set_status(chan, Tag(c), status))

MessengerShutdownClean(c) ==
    MessengerCall(c, "messenger.shutdown_clean", None,
        messenger_shutdown_clean(chan, Tag(c)))

MessengerWebsocketMessage(c) ==
    \E frame \in RawFrames :
        MessengerCall(c, "messenger.websocket_message", frame,
            messenger_websocket_message(chan, Tag(c), frame))

\* the runner takes the oldest message off the channel and applies it
RunnerRecv ==
    /\ chan.alive
    /\ chan.queue # <<>>
    /\ LET m == Head(chan.queue)
       IN /\ chan' = [chan EXCEPT !.queue = Tail(@)]
          /\ ngot' = [ngot EXCEPT ![m.from] = @ + 1]
          /\ recv' = Some(m)
          /\ shard' = runner_apply(shard, m.msg)
          /\ ret' = Called("runner.recv", m.msg,
                           Out(shard, Returned, <<>>, "none"))
          /\ pre' = shard
    /\ UNCHANGED <<now, nsent, lk>>

\* the runner ends: its Receiver is dropped with whatever is still queued
RunnerDrop ==
    /\ chan.alive
    /\ chan' = [queue |-> <<>>, alive |-> FALSE]
    /\ UNCHANGED <<shard, now, ret, pre, nsent, ngot, recv, lk>>

\* one messenger, every method with every argument, and the presence
\* methods of the shard called directly
NextMessenger ==
    \/ MessengerChunkGuilds(1)
    \/ MessengerSetGame(1)
    \/ MessengerSetPresence(1)
    \/ MessengerSetStatus(1, Statuses)
    \/ MessengerShutdownClean(1)
    \/ MessengerWebsocketMessage(1)
    \/ RunnerRecv
    \/ RunnerDrop
    \/ CallSetGame
    \/ CallSetStatus
    \/ CallSetPresence

SpecMessenger == Init /\ [][NextMessenger]_vars

\* every messenger concurrently, with few kinds of message, while the
\* runner lives and keeps receiving at its own pace
NextChannel ==
    \/ \E c \in Callers : MessengerSetStatus(c, {"Online", "Offline"})
    \/ \E c \in Callers : MessengerShutdownClean(c)
    \/ RunnerRecv

SpecChannel == Init /\ [][NextChannel]_vars /\ WF_vars(RunnerRecv)

----------------------------------------------------------------------------
(* The shared token and ws_url.  Two shards are built from the same        *)
(* Arc<Mutex<String>> values and run on their own threads.  A method that  *)
(* reads one of them is stepped: it is called and waits for the mutex, it  *)
(* takes the mutex and starts its network call with the guard as a         *)
(* temporary of the calling statement, and the call returns, after which   *)
(* the statement ends and the guard is dropped.  ret and pre describe      *)
(* whole calls and are left alone by these steps.                          *)

\* the Shard of connection c
conn(c) == IF c = 1 THEN shard ELSE lk.peer

\* the mutex a waiting method is about to take
mutex_of(pc) ==
    IF pc \in {"identify.lock", "resume.lock_token"} THEN "token" ELSE "ws_url"

\* the positions at which a method is about to take a mutex
LockPcs ==
    {"new.lock", "identify.lock", "initialize.lock", "resume.lock",
     "resume.lock_token"}

\* the mutex behind the Arc called m: with one mutex given as both ws_url
\* and token, either name reaches the same mutex
mutex(m) == IF lk.same THEN "ws_url" ELSE m

\* the owners once the guard on m is dropped
unlock(m) == [lk.owner EXCEPT ![mutex(m)] = 0]

\* the positions at which a connect or a send is in progress
NetworkPcs ==
    {"new.connect", "initialize.connect", "resume.connect",
     "identify.send", "resume.send"}

\* one step of connection c: its Shard, its position, the mutex owners
Step(c, s, pc, owner) ==
    /\ shard' = IF c = 1 THEN s ELSE shard
    /\ lk' = [owner |-> owner,
              pc |-> [lk.pc EXCEPT ![c] = pc],
              peer |-> IF c = 1 THEN lk.peer ELSE s,
              same |-> lk.same]
    /\ UNCHANGED <<now, ret, pre, msgr>>

\* a method is called; the ones that connect come to their first statement
Enter(c) ==
    /\ lk.pc[c] = "idle"
    /\ \/ Step(c, conn(c), "new.lock", lk.owner)
       \/ Step(c, conn(c), "identify.lock", lk.owner)
       \/ \E pc \in {"initialize.lock", "resume.lock"} :
              Step(c, [conn(c) EXCEPT !.stage = "Connecting", !.started = now],
                   pc, lk.owner)

\* ws_url.lock() / self.token.lock(): the guard is taken while the
\* arguments of connect, send_identify or send_resume are evaluated, and
\* the call starts
Lock(c) ==
    /\ lk.pc[c] \in LockPcs
    /\ lk.owner[mutex(mutex_of(lk.pc[c]))] = 0
    /\ Step(c, conn(c),
            CASE lk.pc[c] = "new.lock" -> "new.connect"
              [] lk.pc[c] = "identify.lock" -> "identify.send"
              [] lk.pc[c] = "initialize.lock" -> "initialize.connect"
              [] lk.pc[c] = "resume.lock" -> "resume.connect"
              [] lk.pc[c] = "resume.lock_token" -> "resume.send",
            [lk.owner EXCEPT ![mutex(mutex_of(lk.pc[c]))] = c])

\* Shard::new: connect returns, the statement ends, the guard is dropped
NewReturn(c) ==
    /\ lk.pc[c] = "new.connect"
    /\ \E conn_ok \in BOOLEAN :
           Step(c, IF conn_ok THEN new(conn(c).shard_info, now) ELSE conn(c),
                "idle", unlock("ws_url"))

\* Shard::identify: send_identify returns
IdentifyReturn(c) ==
    /\ lk.pc[c] = "identify.send"
    /\ \E send_ok \in BOOLEAN :
           Step(c, identify(conn(c), send_ok, now).shard,
                "idle", unlock("token"))

\* Shard::initialize: connect returns
InitializeReturn(c) ==
    /\ lk.pc[c] = "initialize.connect"
    /\ \E conn_ok \in BOOLEAN :
           Step(c, initialize(conn(c), conn_ok, now).shard,
                "idle", unlock("ws_url"))

\* mutant: the guard on ws_url taken in initialize lives on into resume
ResumeConnected_guard_kept(c) ==
    /\ lk.pc[c] = "resume.connect"
    /\ \E conn_ok \in BOOLEAN :
           LET i == initialize(conn(c), conn_ok, now)
           IN IF conn_ok /\ is_some(conn(c).session_id)
              THEN Step(c, [i.shard EXCEPT !.stage = "Resuming"],
                        "resume.lock_token", lk.owner)
              ELSE Step(c, resume(conn(c), conn_ok, TRUE, now).shard,
                        "idle", unlock("ws_url"))

\* Shard::resume: initialize returns; with a client and a session id the
\* method goes on to send_resume
ResumeConnected(c) ==
    /\ lk.pc[c] = "resume.connect"
    /\ \E conn_ok \in BOOLEAN :
           LET i == initialize(conn(c), conn_ok, now)
           IN IF conn_ok /\ is_some(conn(c).session_id)
              THEN Step(c, [i.shard EXCEPT !.stage = "Resuming"],
                        "resume.lock_token", unlock("ws_url"))
              ELSE Step(c, resume(conn(c), conn_ok, TRUE, now).shard,
                        "idle", unlock("ws_url"))

\* Shard::resume: send_resume returns
ResumeReturn(c) ==
    /\ lk.pc[c] = "resume.send"
    /\ \E send_ok \in BOOLEAN :
           Step(c, resume(conn(c), TRUE, send_ok, now).shard,
                "idle", unlock("token"))

\* the gateway's Ready gives the connection a session to resume
ConnReady(c) ==
    /\ lk.pc[c] = "idle"
    /\ \E sid \in SessionIds :
           Step(c, handle_event(conn(c), Dispatch(1, "Ready", Some(sid)),
                                now).shard,
                "idle", lk.owner)

NextLock ==
    \E c \in Conns :
        \/ Enter(c)
        \/ Lock(c)
        \/ NewReturn(c)
        \/ IdentifyReturn(c)
        \/ InitializeReturn(c)
        \/ ResumeConnected(c)
        \/ ResumeReturn(c)
        \/ ConnReady(c)

SpecLock == Init /\ [][NextLock]_vars

SpecMutex == InitMutex /\ [][NextLock]_vars

----------------------------------------------------------------------------
----------------------------------------------------------------------------
(* http::AttachmentType and its From implementations.  A str is its        *)
(* sequence of characters; a Path is a view of an OsStr and a PathBuf owns *)
(* an OsString, each holding the characters it was made from.              *)

Path_new(s) == [os_str |-> s]
PathBuf_from(s) == [os_string |-> s]
as_path(pathbuf) == [os_str |-> pathbuf.os_string]

AttachmentBytes(params) == [variant |-> "Bytes", value |-> params]
AttachmentFile(params) == [variant |-> "File", value |-> params]
AttachmentPath(path) == [variant |-> "Path", value |-> path]

from_bytes(params) == AttachmentBytes(params)

\* mutant: a str is taken for the name of an empty attachment
from_str_as_bytes(s) == AttachmentBytes(<<<<>>, s>>)

from_str(s) == AttachmentPath(Path_new(s))

from_path(path) == AttachmentPath(path)

from_pathbuf(pathbuf) == AttachmentPath(as_path(pathbuf))

from_file(f) == AttachmentFile(<<f[1], f[2]>>)

Convert(kind, arg, result) ==
    Call("AttachmentType::from", [kind |-> kind, value |-> arg],
         Out(shard, result, <<>>, "none"))

FromBytes ==
    \E b \in ByteSlices, n \in Filenames :
        Convert("(&[u8], &str)", <<b, n>>, from_bytes(<<b, n>>))

FromStr == \E s \in Strs : Convert("&str", s, from_str(s))

FromPath ==
    \E s \in Strs : Convert("&Path", Path_new(s), from_path(Path_new(s)))

FromPathBuf ==
    \E s \in Strs :
        Convert("&PathBuf", PathBuf_from(s), from_pathbuf(PathBuf_from(s)))

FromFile ==
    \E f \in Files, n \in Filenames :
        Convert("(&File, &str)", <<f, n>>, from_file(<<f, n>>))

NextAttachment ==
    \/ FromBytes
    \/ FromStr
    \/ FromPath
    \/ FromPathBuf
    \/ FromFile

SpecAttachment == Init /\ [][NextAttachment]_vars

TypeOK ==
    /\ shard.stage \in Stages
    /\ shard.seq \in Seqs
    /\ now \in 0 .. MaxStartupNow

----------------------------------------------------------------------------
(* Properties.  ret and pre describe the last call, so "after operation X" *)
(* is "ret.op = X", the state before it is pre and the state after it is   *)
(* shard.                                                                  *)

HandledEvent == ret.op = "handle_event"
Handled(type) == HandledEvent /\ ret.arg.type = type
HandledClose(code) == HandledEvent /\ ret.arg = Closed(Some(code))

\* C1: whenever handle_event returns Reconnect(Resume), session_id is
\* present at that moment.
C1_ResumeOnlyWithSession ==
    (HandledEvent /\ ret.result = Ok(ReconnectResume))
        => is_some(shard.session_id)

\* C2 as stated: the stored sequence goes down only through reset() or
\* reconnect().
C2_SeqDecreasesOnlyByReset ==
    shard.seq < pre.seq => ret.op \in {"reset", "reconnect"}

\* C2 as amended: the stored sequence goes down only through reset() or
\* reconnect(), through handle_event on a close with the invalid-sequence
\* code (to 0), or through handle_event on a Dispatch carrying a lower seq
\* (to that seq); no other event and no other method lowers it.
C2_SeqDecreasesOnlyByResetCloseOrDispatch ==
    shard.seq < pre.seq =>
        \/ ret.op \in {"reset", "reconnect"}
        \/ HandledClose(INVALID_SEQUENCE) /\ shard.seq = 0
        \/ Handled("Dispatch") /\ shard.seq = unwrap(ret.arg.seq)

C2_Witness ==
    /\ HandledClose(INVALID_SEQUENCE)
    /\ pre.seq > 0
    /\ shard.seq = 0

\* C3: after Dispatch(seq, event) the stored sequence is seq and there is no
\* action, also when seq leaves a gap (seq > sequence + 1).
C3_DispatchStoresSeq ==
    Handled("Dispatch") =>
        /\ shard.seq = unwrap(ret.arg.seq)
        /\ ret.result = Ok(NoAction)

C3_Witness ==
    /\ Handled("Dispatch")
    /\ unwrap(ret.arg.seq) > pre.seq + 1
    /\ shard.seq = unwrap(ret.arg.seq)

\* C4 as stated: a close with the authentication-failed code yields
\* Reconnect(Reidentify).
C4_AuthFailedReidentifies ==
    HandledClose(AUTHENTICATION_FAILED)
        => ret.result = Ok(ReconnectReidentify)

\* C4 as amended: a close with the authentication-failed code yields the
\* error InvalidAuthentication and no action, with or without a session id.
C4_AuthFailedIsFatal ==
    HandledClose(AUTHENTICATION_FAILED)
        => ret.result = Err("InvalidAuthentication")

C4_Witness ==
    /\ HandledClose(AUTHENTICATION_FAILED)
    /\ is_some(pre.session_id)
    /\ ret.result = Err("InvalidAuthentication")

FatalClose ==
    [c \in {NOT_AUTHENTICATED, AUTHENTICATION_FAILED, INVALID_SHARD,
            SHARDING_REQUIRED} |->
        CASE c = NOT_AUTHENTICATED -> "NoAuthentication"
          [] c = AUTHENTICATION_FAILED -> "InvalidAuthentication"
          [] c = INVALID_SHARD -> "InvalidShardData"
          [] c = SHARDING_REQUIRED -> "OverloadedShard"]

\* C5: a close with the not-authenticated, authentication-failed,
\* invalid-shard or sharding-required code returns NoAuthentication,
\* InvalidAuthentication, InvalidShardData or OverloadedShard, no action,
\* and leaves sequence, session_id and stage as they were.
C5_FatalCloses ==
    \A c \in DOMAIN FatalClose :
        HandledClose(c) =>
            /\ ret.result = Err(FatalClose[c])
            /\ shard.seq = pre.seq
            /\ shard.session_id = pre.session_id
            /\ shard.stage = pre.stage

C5_Witness ==
    /\ HandledClose(SHARDING_REQUIRED)
    /\ ret.result = Err("OverloadedShard")
    /\ is_some(shard.session_id)
    /\ shard.seq > 0

\* C6: for every close that is not fatal, with or without close data, the
\* action is Reconnect(Resume) iff the code is not authentication-failed and
\* session_id is present after classification, else Reconnect(Reidentify).
C6_ClosedDecision ==
    (Handled("Closed") /\ ret.result.kind = "Ok") =>
        ret.result =
            Ok(IF ret.arg.data # Some(AUTHENTICATION_FAILED)
                  /\ is_some(shard.session_id)
               THEN ReconnectResume
               ELSE ReconnectReidentify)

\* C7: a close with the invalid-sequence code sets sequence to 0, keeps
\* session_id, and returns Reconnect(Resume) with a session id and
\* Reconnect(Reidentify) without one.
C7_InvalidSequenceClose ==
    HandledClose(INVALID_SEQUENCE) =>
        /\ shard.seq = 0
        /\ shard.session_id = pre.session_id
        /\ ret.result = Ok(IF is_some(pre.session_id)
                           THEN ReconnectResume
                           ELSE ReconnectReidentify)

C7_Witness ==
    /\ HandledClose(INVALID_SEQUENCE)
    /\ pre.seq > 0
    /\ is_some(pre.session_id)
    /\ ret.result = Ok(ReconnectResume)

\* C8: reconnect() leaves sequence 0 and session_id absent, from any state
\* and whether or not the new transport opened.
C8_ReconnectResets ==
    ret.op = "reconnect" =>
        /\ shard.seq = 0
        /\ is_none(shard.session_id)

C8_Witness ==
    /\ ret.op = "reconnect"
    /\ ret.result.kind = "Err"
    /\ pre.seq > 0
    /\ is_some(pre.session_id)
    /\ shard.seq = 0

\* C9: resume() changes neither session_id nor sequence, whether it returns
\* successfully or with an error.
C9_ResumeKeepsSession ==
    ret.op = "resume" =>
        /\ shard.session_id = pre.session_id
        /\ shard.seq = pre.seq

C9_Witness ==
    /\ ret.op = "resume"
    /\ ret.result.kind = "Ok"
    /\ is_some(shard.session_id)
    /\ shard.seq > 0

\* C10: reconnection_type() is Resume iff session_id is present and
\* Reidentify otherwise, whatever the other fields hold, and changes nothing.
C10_ReconnectionType ==
    ret.op = "reconnection_type" =>
        /\ ret.result = (IF is_some(pre.session_id)
                         THEN "Resume" ELSE "Reidentify")
        /\ shard = pre

C10_Witness ==
    /\ ret.op = "reconnection_type"
    /\ ret.result = "Resume"
    /\ shard.stage = "Connecting"

C12_ReadyStoresSession ==
    (Handled("Dispatch") /\ ret.arg.event = "Ready") =>
        /\ shard.session_id = ret.arg.session_id
        /\ shard.stage = "Connected"
        /\ shard.seq = unwrap(ret.arg.seq)
        /\ ret.result = Ok(NoAction)

C12_Witness ==
    /\ Handled("Dispatch")
    /\ ret.arg.event = "Ready"
    /\ is_some(pre.session_id)
    /\ pre.session_id # ret.arg.session_id
    /\ pre.stage = "Identifying"
    /\ shard.session_id = ret.arg.session_id

ToleratedTimeout ==
    /\ ret.arg.event = "NoDataAvailable"
    /\ is_none(pre.heartbeat_instants[2])

\* C13: a websocket error other than the tolerated warm-up read timeout
\* yields Reconnect(reconnection_type()) and leaves sequence, session_id and
\* stage as they were.
C13_WebSocketErrorReconnects ==
    (Handled("WebSocket") /\ ~ToleratedTimeout) =>
        /\ ret.result = Ok(IF is_some(pre.session_id)
                           THEN ReconnectResume ELSE ReconnectReidentify)
        /\ shard.seq = pre.seq
        /\ shard.session_id = pre.session_id
        /\ shard.stage = pre.stage

C13_Witness ==
    /\ Handled("WebSocket")
    /\ ret.arg.event = "NoDataAvailable"
    /\ is_some(pre.heartbeat_instants[2])
    /\ pre.stage = "Connected"
    /\ is_some(pre.session_id)
    /\ pre.seq > 0
    /\ ret.result = Ok(ReconnectResume)

SinceLastSent == ret.at - unwrap(pre.heartbeat_instants[1])

\* C14: with the interval known, more than one interval elapsed since the
\* last heartbeat was sent and that heartbeat not acknowledged,
\* check_heartbeat returns false, sends nothing and changes nothing.
C14_MissedAckIsUnhealthy ==
    ( /\ ret.op = "check_heartbeat"
      /\ is_some(pre.heartbeat_interval)
      /\ is_some(pre.heartbeat_instants[1])
      /\ SinceLastSent > unwrap(pre.heartbeat_interval)
      /\ ~pre.last_heartbeat_acknowledged ) =>
        /\ ret.result = FALSE
        /\ ret.frames = <<>>
        /\ shard = pre

C14_Witness ==
    /\ ret.op = "check_heartbeat"
    /\ pre.heartbeat_interval = Some(1000)
    /\ is_some(pre.heartbeat_instants[1])
    /\ SinceLastSent = 1500
    /\ ~pre.last_heartbeat_acknowledged
    /\ ret.result = FALSE

Visible(status) == IF status = "Offline" THEN "Invisible" ELSE status

\* C16: the stored presence status is never Offline: the messenger's
\* set_status and set_presence enqueue Invisible when given Offline, and the
\* shard's set_status and set_presence store Invisible when given Offline;
\* every other status is sent and stored as given.
C16_NeverOffline ==
    /\ shard.current_presence[2] # "Offline"
    /\ \A i \in 1 .. Len(chan.queue) : chan.queue[i].msg.status # "Offline"
    /\ ret.op \in {"messenger.set_status", "messenger.set_presence"} =>
           ret.sends[1].msg.status = Visible(ret.arg.status)
    /\ ret.op \in {"set_status", "set_presence"} =>
           shard.current_presence[2] = Visible(ret.arg.status)

C16_Witness ==
    /\ ret.op = "messenger.set_status"
    /\ ret.arg.status = "Offline"
    /\ ret.sends[1].ok
    /\ chan.queue # <<>>
    /\ chan.queue[Len(chan.queue)].msg = SetStatus("Invisible")

\* the messages of messenger c still in the channel, oldest first
Pending(c) == SelectSeq(chan.queue, LAMBDA m : m.from = c)

\* C17: with any number of cloned messengers sending concurrently, while
\* the consumer is alive every enqueued message is in the channel or was
\* received, none twice, and the messages of one messenger are received in
\* the order it sent them: its n-th message is the n-th of its messages
\* that the runner receives, and the runner does receive it.
C17_ExactlyOnceInOrder ==
    /\ [](chan.alive =>
            \A c \in Callers :
                /\ Len(Pending(c)) = nsent[c] - ngot[c]
                /\ \A i \in 1 .. Len(Pending(c)) :
                       Pending(c)[i].n = ngot[c] + i
                /\ (is_some(recv) /\ unwrap(recv).from = c) =>
                       unwrap(recv).n = ngot[c])
    /\ \A c \in Callers : \A k \in 1 .. MaxSends :
           (nsent[c] >= k) ~> (ngot[c] >= k)

C17_Witness ==
    /\ chan.alive
    /\ is_some(recv)
    /\ unwrap(recv).from = 2
    /\ unwrap(recv).n = 2
    /\ Len(Pending(1)) = 2

MessengerOps ==
    {"messenger.chunk_guilds", "messenger.set_game", "messenger.set_presence",
     "messenger.set_status", "messenger.shutdown_clean",
     "messenger.websocket_message"}

\* C18: every messenger call attempts exactly one enqueue, of the message
\* of its method (shutdown_clean: Close(1000, None); websocket_message: the
\* given frame unmodified), and returns normally whether or not the enqueue
\* succeeded.
C18_OneSendPerCall ==
    ret.op \in MessengerOps =>
        /\ Len(ret.sends) = 1
        /\ ret.result = Returned
        /\ ret.op = "messenger.shutdown_clean" =>
               ret.sends[1].msg = Close(1000, None)
        /\ ret.op = "messenger.websocket_message" =>
               ret.sends[1].msg = Message(ret.arg)
        /\ ret.op = "messenger.chunk_guilds" =>
               ret.sends[1].msg = ChunkGuilds(ret.arg[1], ret.arg[2], ret.arg[3])
        /\ ret.op = "messenger.set_game" =>
               ret.sends[1].msg = SetGame(ret.arg.game)
        /\ ret.op = "messenger.set_status" =>
               ret.sends[1].msg.kind = "SetStatus"
        /\ ret.op = "messenger.set_presence" =>
               /\ ret.sends[1].msg.kind = "SetPresence"
               /\ ret.sends[1].msg.game = ret.arg.game

C18_Witness ==
    /\ ret.op = "messenger.shutdown_clean"
    /\ ~chan.alive
    /\ ~ret.sends[1].ok
    /\ ret.result = Returned

\* C19: no connect and no send is in progress while the connection that
\* performs it holds the token mutex or the ws_url mutex.
C19_NoLockAcrossNetwork ==
    \A c \in Conns :
        lk.pc[c] \in NetworkPcs =>
            /\ lk.owner.token # c
            /\ lk.owner.ws_url # c

\* C21: a path given as a &Path or as a &str converts to the Path variant,
\* never Bytes or File, and the variant holds the path that was given,
\* character for character.
C21_PathConversion ==
    /\ (ret.op = "AttachmentType::from" /\ ret.arg.kind = "&str") =>
           /\ ret.result.variant = "Path"
           /\ ret.result.value.os_str = ret.arg.value
    /\ (ret.op = "AttachmentType::from" /\ ret.arg.kind = "&Path") =>
           /\ ret.result.variant = "Path"
           /\ ret.result.value = ret.arg.value

C21_Witness ==
    /\ ret.op = "AttachmentType::from"
    /\ ret.arg.kind = "&str"
    /\ ret.arg.value = <<".", "/", "a">>
    /\ ret.result.variant = "Path"

\* C22: with the interval I known and the last heartbeat sent E
\* milliseconds ago, E < I makes check_heartbeat return true, send nothing
\* and change nothing, for every I > 0, whole seconds or not.
C22_HealthyWithinInterval ==
    ( /\ ret.op = "check_heartbeat"
      /\ is_some(pre.heartbeat_interval)
      /\ is_some(pre.heartbeat_instants[1])
      /\ SinceLastSent < unwrap(pre.heartbeat_interval) ) =>
        /\ ret.result = TRUE
        /\ ret.frames = <<>>
        /\ shard = pre

\* check_heartbeat was called with the interval known and the previous
\* heartbeat acknowledged
DueCheck ==
    /\ ret.op = "check_heartbeat"
    /\ is_some(pre.heartbeat_interval)
    /\ pre.last_heartbeat_acknowledged

\* the heartbeat of the send step went out with the sequence of the shard;
\* sent, it left its instant and an open acknowledgement and the answer
\* true; not sent, it left nothing and the answer false
SendStepDone ==
    /\ ret.frames = <<HeartbeatFrame(pre.seq)>>
    /\ ret.result \in BOOLEAN
    /\ ret.result =>
           shard = [pre EXCEPT !.heartbeat_instants[1] = Some(ret.at),
                               !.last_heartbeat_acknowledged = FALSE]
    /\ ~ret.result => shard = pre

C24_InvalidationClearsSession ==
    (Handled("InvalidateSession") /\ ~unwrap(ret.arg.data)) =>
        /\ is_none(shard.session_id)
        /\ reconnection_type(shard) = "Reidentify"

C26_HelloWhileResumingIgnored ==
    (Handled("Hello") /\ pre.stage = "Resuming") =>
        /\ ret.result = Ok(NoAction)
        /\ ret.frames = <<>>
        /\ shard = pre

C26_Witness ==
    /\ Handled("Hello")
    /\ pre.stage = "Resuming"
    /\ unwrap(ret.arg.data) > 0
    /\ is_some(pre.heartbeat_interval)
    /\ ret.arg.data # pre.heartbeat_interval
    /\ shard.heartbeat_interval = pre.heartbeat_interval

\* the shard as Dispatch(seq, Resumed) leaves it, up to the next heartbeat,
\* acknowledgement or change of stage
JustResumed(s) ==
    /\ s.stage = "Connected"
    /\ s.last_heartbeat_acknowledged
    /\ is_some(s.heartbeat_instants[1])
    /\ is_none(s.heartbeat_instants[2])

\* C27: Dispatch(seq, Resumed) sets the stage to Connected, sets
\* last_heartbeat_acknowledged and sets the heartbeat instants to (now,
\* none); a check_heartbeat after it and before one interval has elapsed
\* returns true.
C27_ResumedRestartsClock ==
    /\ (Handled("Dispatch") /\ ret.arg.event = "Resumed") =>
           /\ shard.stage = "Connected"
           /\ shard.last_heartbeat_acknowledged
           /\ shard.heartbeat_instants = <<Some(ret.at), None>>
    /\ ( /\ ret.op = "check_heartbeat"
         /\ JustResumed(pre)
         /\ is_some(pre.heartbeat_interval)
         /\ SinceLastSent < unwrap(pre.heartbeat_interval) ) =>
           ret.result = TRUE

\* a heartbeat of s is unacknowledged for more than the interval at t
Overdue(s, t) ==
    /\ is_some(s.heartbeat_interval)
    /\ is_some(s.heartbeat_instants[1])
    /\ ~s.last_heartbeat_acknowledged
    /\ t - unwrap(s.heartbeat_instants[1]) > unwrap(s.heartbeat_interval)

C30_HeartbeatAck ==
    Handled("HeartbeatAck") =>
        /\ ret.result = Ok(NoAction)
        /\ shard.heartbeat_instants[2] = Some(ret.at)
        /\ shard.last_heartbeat_acknowledged
        /\ shard = [pre EXCEPT !.heartbeat_instants[2] = Some(ret.at),
                               !.last_heartbeat_acknowledged = TRUE]

C30_Witness ==
    /\ Handled("HeartbeatAck")
    /\ pre.stage = "Disconnected"
    /\ ~pre.last_heartbeat_acknowledged
    /\ ret.at > 0
    /\ pre.heartbeat_instants[1] # Some(ret.at)
    /\ shard.last_heartbeat_acknowledged

\* C31: a Closed event with the session-timeout code or code 4006 clears
\* session_id, leaves sequence unchanged and returns Reconnect(Reidentify),
\* whether or not a session id was present before the event.
C31_SessionTimeoutReidentifies ==
    (HandledClose(SESSION_TIMEOUT) \/ HandledClose(CODE_4006)) =>
        /\ is_none(shard.session_id)
        /\ shard.seq = pre.seq
        /\ ret.result = Ok(ReconnectReidentify)

C31_Witness ==
    /\ HandledClose(SESSION_TIMEOUT)
    /\ is_some(pre.session_id)
    /\ pre.seq > 0
    /\ is_none(shard.session_id)
    /\ ret.result = Ok(ReconnectReidentify)

\* C32: a NoDataAvailable read timeout handled while no acknowledgement
\* instant is recorded yields no action and changes no field; handled once an
\* acknowledgement instant is recorded it yields
\* Reconnect(reconnection_type()).  reset(), reconnect() and Dispatch(Resumed)
\* leave the acknowledgement instant empty, so the next read timeout is
\* tolerated again.
C32_ReadTimeoutTolerance ==
    /\ (Handled("WebSocket") /\ ret.arg.event = "NoDataAvailable") =>
          IF is_none(pre.heartbeat_instants[2])
          THEN ret.result = Ok(NoAction) /\ shard = pre
          ELSE ret.result = Ok(Reconnect(reconnection_type(pre)))
    /\ ret.op \in {"reset", "reconnect"} =>
          is_none(shard.heartbeat_instants[2])
    /\ (Handled("Dispatch") /\ ret.arg.event = "Resumed") =>
          is_none(shard.heartbeat_instants[2])
    /\ is_none(shard.heartbeat_instants[2]) =>
          handle_event(shard, WebSocketErr("NoDataAvailable"), now).result
              = Ok(NoAction)

C32_Witness ==
    /\ Handled("WebSocket")
    /\ ret.arg.event = "NoDataAvailable"
    /\ is_none(pre.heartbeat_instants[2])
    /\ pre.stage = "Connected"
    /\ is_some(pre.session_id)
    /\ ret.result = Ok(NoAction)
    /\ shard = pre

C32_WitnessReopened ==
    /\ Handled("Dispatch")
    /\ ret.arg.event = "Resumed"
    /\ is_some(pre.heartbeat_instants[2])
    /\ is_none(shard.heartbeat_instants[2])

\* C33: session_id is set only by handling a Dispatch(Ready), to the id that
\* Ready carries; every other call leaves it as it was or clears it, and
\* reset() and reconnect() clear it.
C33_SessionIdFromReady ==
    /\ (Handled("Dispatch") /\ ret.arg.event = "Ready") =>
          shard.session_id = ret.arg.session_id
    /\ ~(Handled("Dispatch") /\ ret.arg.event = "Ready") =>
          (shard.session_id = pre.session_id \/ is_none(shard.session_id))
    /\ ret.op \in {"new", "reset", "reconnect"} => is_none(shard.session_id)

C33_Witness ==
    /\ Handled("Dispatch")
    /\ ret.arg.event = "Ready"
    /\ pre.session_id = Some("abc")
    /\ shard.session_id = Some("xyz")

C33_WitnessCleared ==
    /\ ret.op = "reconnect"
    /\ is_some(pre.session_id)
    /\ is_none(shard.session_id)

\* C34 (as stated): resume() called while session_id is absent returns the
\* NoSessionId error, sends no Resume frame and leaves stage Resuming; called
\* while session_id is present it sends exactly one Resume carrying that
\* session id and the current sequence and leaves stage Resuming.
C34_Resume ==
    ret.op = "resume" =>
        /\ shard.stage = "Resuming"
        /\ IF is_none(pre.session_id)
           THEN ret.result = Err("NoSessionId") /\ ret.frames = <<>>
           ELSE ret.frames =
                    <<ResumeFrame(unwrap(pre.session_id), pre.seq)>>

\* C34 (amended): when the transport reopens, resume() behaves as stated;
\* when opening it fails, resume() returns that error, sends nothing and
\* leaves stage Connecting, whether or not a session id is present.
C34_ResumeWhenConnected ==
    ret.op = "resume" =>
        /\ shard.session_id = pre.session_id
        /\ shard.seq = pre.seq
        /\ IF ret.connect = "ok"
           THEN /\ shard.stage = "Resuming"
                /\ IF is_none(pre.session_id)
                   THEN ret.result = Err("NoSessionId") /\ ret.frames = <<>>
                   ELSE ret.frames =
                            <<ResumeFrame(unwrap(pre.session_id), pre.seq)>>
           ELSE /\ shard.stage = "Connecting"
                /\ ret.result = Err("Connect")
                /\ ret.frames = <<>>

C34_Witness ==
    /\ ret.op = "resume"
    /\ ret.connect = "ok"
    /\ pre.session_id = Some("abc")
    /\ pre.seq = 2
    /\ pre.stage = "Connected"
    /\ ret.frames = <<ResumeFrame("abc", 2)>>
    /\ shard.stage = "Resuming"

\* C35: after reconnect() the stage is Handshake if the new transport opened
\* and Connecting if opening it failed, never Disconnected; on success the
\* heartbeat interval is unknown and last_heartbeat_acknowledged is true; on
\* failure should_reconnect() answers None, and keeps doing so while the
\* stage is Connecting.  Disconnected is entered only by reset().
C35_AfterReconnect ==
    /\ ret.op = "reconnect" =>
          /\ shard.stage # "Disconnected"
          /\ IF ret.connect = "ok"
             THEN /\ ret.result = Ok("()")
                  /\ shard.stage = "Handshake"
                  /\ is_none(shard.heartbeat_interval)
                  /\ shard.last_heartbeat_acknowledged
             ELSE /\ ret.result = Err("Connect")
                  /\ shard.stage = "Connecting"
                  /\ should_reconnect(shard) = None
    /\ (ret.op = "should_reconnect" /\ pre.stage = "Connecting") =>
          ret.result = None /\ shard = pre
    /\ (shard.stage = "Disconnected" /\ pre.stage # "Disconnected") =>
          ret.op = "reset"

C35_Witness ==
    /\ ret.op = "reconnect"
    /\ ret.connect = "ok"
    /\ pre.stage = "Connected"
    /\ is_some(pre.heartbeat_interval)
    /\ ~pre.last_heartbeat_acknowledged
    /\ shard.stage = "Handshake"

C35_WitnessFailed ==
    /\ ret.op = "reconnect"
    /\ ret.connect = "failed"
    /\ pre.stage = "Connected"
    /\ shard.stage = "Connecting"

\* C36: handle_event changes the stage in three cases only: Dispatch(Ready)
\* and Dispatch(Resumed) set it to Connected, and Heartbeat(s) with
\* s > sequence + 1 handled in Handshake sets it to Identifying.  Every other
\* event and every error leaves it as it was, and no other operation makes
\* the stage Connected.
C36_StageChanges ==
    /\ HandledEvent =>
          shard.stage =
              CASE ret.arg.type = "Dispatch"
                       /\ ret.arg.event \in {"Ready", "Resumed"} -> "Connected"
                [] ret.arg.type = "Heartbeat"
                       /\ unwrap(ret.arg.seq) > pre.seq + 1
                       /\ pre.stage = "Handshake" -> "Identifying"
                [] OTHER -> pre.stage
    /\ (shard.stage = "Connected" /\ pre.stage # "Connected") =>
          /\ Handled("Dispatch")
          /\ ret.arg.event \in {"Ready", "Resumed"}

C36_Witness ==
    /\ Handled("Heartbeat")
    /\ pre.stage = "Handshake"
    /\ unwrap(ret.arg.seq) > pre.seq + 1
    /\ shard.stage = "Identifying"
    /\ ret.result = Ok(Identify)

C36_WitnessConnected ==
    /\ Handled("Dispatch")
    /\ ret.arg.event = "Resumed"
    /\ pre.stage = "Resuming"
    /\ shard.stage = "Connected"

\* C38: latency() returns the acknowledgement instant minus the send instant
\* exactly when both instants are recorded and the acknowledgement is
\* strictly later than the send; it returns none when either is missing,
\* when they are equal, and when the send is the later one.
C38_Latency ==
    ret.op = "latency" =>
        LET sent == pre.heartbeat_instants[1]
            ack == pre.heartbeat_instants[2]
            both == is_some(sent) /\ is_some(ack)
        IN /\ shard = pre
           /\ (both /\ unwrap(ack) > unwrap(sent)) =>
                  ret.result = Some(unwrap(ack) - unwrap(sent))
           /\ ~both => ret.result = None
           /\ (both /\ unwrap(ack) = unwrap(sent)) => ret.result = None
           /\ (both /\ unwrap(ack) < unwrap(sent)) => ret.result = None

C38_Witness ==
    /\ ret.op = "latency"
    /\ shard.heartbeat_instants = <<Some(500), Some(1000)>>
    /\ ret.result = Some(500)

C38_WitnessEqual ==
    /\ ret.op = "latency"
    /\ shard.heartbeat_instants = <<Some(500), Some(500)>>
    /\ ret.result = None

C38_WitnessOutstanding ==
    /\ ret.op = "latency"
    /\ shard.heartbeat_instants = <<Some(1000), Some(500)>>
    /\ ret.result = None

\* C39: an error that is neither a gateway close nor a websocket error
\* yields no action and leaves every field of the shard unchanged.
C39_OtherErrorIgnored ==
    Handled("OtherError") =>
        /\ ret.result = Ok(NoAction)
        /\ ret.frames = <<>>
        /\ shard = pre

C39_Witness ==
    /\ Handled("OtherError")
    /\ pre.stage = "Connected"
    /\ is_some(pre.session_id)
    /\ ~pre.last_heartbeat_acknowledged
    /\ ret.result = Ok(NoAction)
    /\ shard = pre

\* the methods that write current_presence
PresenceSetters == {"set_game", "set_status", "set_presence"}

\* C37: current_presence is changed only by set_game, set_status and
\* set_presence: handle_event, check_heartbeat, heartbeat, identify, reset,
\* reconnect, resume and update_presence leave it as it was, and
\* update_presence sends it as stored; shard_info() returns the pair given at
\* construction, which no operation changes.
C37_PresenceAndShardInfoKept ==
    /\ ret.op \notin PresenceSetters =>
          shard.current_presence = pre.current_presence
    /\ ret.op = "update_presence" =>
          ret.frames =
              <<PresenceFrame(pre.shard_info, pre.current_presence)>>
    /\ shard.shard_info = pre.shard_info
    /\ shard.shard_info \in ShardInfos
    /\ ret.op = "shard_info" => (ret.result = pre.shard_info /\ shard = pre)

C37_Witness ==
    /\ ret.op = "reconnect"
    /\ ret.connect = "ok"
    /\ pre.stage = "Connected"
    /\ pre.current_presence = <<Some("playing"), "Idle">>
    /\ shard.current_presence = <<Some("playing"), "Idle">>

C37_WitnessResume ==
    /\ ret.op = "resume"
    /\ is_some(pre.session_id)
    /\ shard.current_presence = <<Some("playing"), "Invisible">>

\* C40: no connection holds the ws_url mutex and the token mutex at once,
\* and none waits for a mutex while it holds one; a connection that waits,
\* waits for a mutex that is free or held by another connection whose
\* connect or send is in progress, and that one gives it up when the call
\* returns.  So no connection blocks on itself or for ever, with two
\* mutexes and with one mutex used as both, for two connections sharing
\* them.
C40_NoLockHeldWhileLocking ==
    \A c \in Conns :
        /\ ~(lk.owner.token = c /\ lk.owner.ws_url = c)
        /\ lk.pc[c] \in LockPcs =>
              /\ lk.owner.token # c
              /\ lk.owner.ws_url # c
              /\ LET o == lk.owner[mutex(mutex_of(lk.pc[c]))]
                 IN o # 0 => (o # c /\ lk.pc[o] \in NetworkPcs)
        /\ lk.pc[c] = "idle" => (lk.owner.token # c /\ lk.owner.ws_url # c)

C40_Witness ==
    /\ lk.same
    /\ lk.pc[1] = "resume.send"
    /\ lk.owner[mutex("token")] = 1
    /\ lk.pc[2] = "resume.lock_token"

====
